---- MODULE Spec2Model ----
(***************************************************************************)
(* A model of the CDC ETL command line program (Project2_CDC_ETL_CLI):     *)
(*   api_client.py        APIClient.fetch_data, APIClient.fetch_data_chunked*)
(*   data_transformer.py  DataTransformer.clean_and_transform              *)
(*   mysql_handler.py     MySQLHandler.create_tables / load_cdc_data /     *)
(*                        the queries / close                              *)
(*   main.py              CLIManager._handle_fetch, main                   *)
(* The program is single threaded; each component is a state machine of   *)
(* its own, given as a specification of its own over the shared variables: *)
(*   SpecFetchData   one call of fetch_data, one loop iteration per step   *)
(*   SpecChunked     one generator of fetch_data_chunked, one next() per   *)
(*                   step                                                  *)
(*   SpecTransform   clean_and_transform applied to a batch, then to its   *)
(*                   own output                                            *)
(*   SpecLoad        a sequence of load_cdc_data calls on one table        *)
(*   SpecHandler     the queries and close() of MySQLHandler, in any order *)
(*   SpecFetch       the fetch command: CLIManager._handle_fetch driving   *)
(*                   the generator, the transformer and load_cdc_data     *)
(*   SpecMain        main(): connect, create_tables, the command, close    *)
(* Spec is their union: Init picks the component that runs.                *)
(***************************************************************************)
EXTENDS Integers, Sequences, FiniteSets, TLC

VARIABLES
    component,      \* which component this behaviour runs
    \* ---- APIClient.fetch_data
    fd_pc,          \* "loop" | "done" ("idle" when another component runs)
    retries,        \* argument retries
    wait,           \* argument wait
    attempt,        \* the loop variable of `for attempt in range(retries)`
    fd_log,         \* what the call did so far: reads and sleeps, in order
    fd_result,      \* "none" | "df" | "empty" | "raised"
    \* ---- APIClient.fetch_data_chunked (one generator)
    gen_pc,         \* "start" | "suspended" (at the yield) | "done"
    chunk_size,     \* argument chunk_size
    max_rows,       \* argument max_rows (None when not set)
    start_date,     \* argument start_date (NoDate when not set)
    end_date,       \* argument end_date (NoDate when not set)
    offset,         \* local offset
    total_rows,     \* local total_rows
    limit,          \* local limit of the current iteration
    chunk,          \* local chunk: the batch at the yield
    requests,       \* the fetch_data calls made: limit, offset, raw row count
                    \* of the page and the rows the date filter kept of it
    yielded,        \* the row count of each batch yielded, in order
    \* ---- DataTransformer.clean_and_transform
    tr_pc,          \* "input" | "once" | "twice": how often it was applied
    df_in,          \* the batch given to the first application
    df_arg,         \* the batch given to the last application
    df_out,         \* what the last application returned
    \* ---- MySQLHandler and the table cdc_covid_cases
    conn,           \* self.conn: "none" (None) | "open" | "lost" (the server
                    \* is out of reach) | "closed"
    table,          \* the committed records of cdc_covid_cases, by id
    next_id,        \* the AUTO_INCREMENT counter of the table
    loads,          \* how many load_cdc_data calls were made
    db_batch,       \* the batch of the last load_cdc_data call
    db_before,      \* the table before that call
    db_trace,       \* the table in the call's transaction, before and after
                    \* each row that executemany applied
    db_result,      \* how the call ended
    \* ---- MySQLHandler: the queries and close()
    queries,        \* how many query calls were made
    q_result,       \* the last query call: what it was and how it ended
    close_calls,    \* the close() calls made, in order: self.conn before and
                    \* after, and whether the call raised
    \* ---- CLIManager._handle_fetch (the fetch command)
    h_pc,           \* "loop" | "completed" | "raised" (an exception left it)
    h_log,          \* one entry per chunk the loop body took: the rows its
                    \* transform kept and how load_cdc_data ended
    h_empty_branch, \* the branch for an empty chunk (`else: break`) was taken
    \* ---- main()
    main_pc,        \* "connect" | "create_tables" | "run" | "query" | "fetch"
                    \* | "finally" | "exit"
    db_handler,     \* the local db_handler: "None" | "handler"
    main_exc        \* how the try block ended: "" (normally) | "caught" (an
                    \* Exception, logged as critical) | "SystemExit" (not an
                    \* Exception: it passes the finally clause and goes on)

fdVars == <<fd_pc, retries, wait, attempt, fd_log, fd_result>>
chVars == <<gen_pc, chunk_size, max_rows, start_date, end_date, offset,
            total_rows, limit, chunk, requests, yielded>>
trVars == <<tr_pc, df_in, df_arg, df_out>>
dbVars == <<conn, table, next_id, loads, db_batch, db_before, db_trace, db_result>>

hVars == <<queries, q_result, close_calls>>

pVars == <<h_pc, h_log, h_empty_branch>>

mVars == <<main_pc, db_handler, main_exc>>

vars == <<component, fdVars, chVars, trVars, dbVars, hVars, pVars, mVars>>

\* What the steps of one component leave alone.
fdFrame == <<component, chVars, trVars, dbVars, hVars, pVars, mVars>>
chFrame == <<component, fdVars, trVars, dbVars, hVars, pVars, mVars>>
trFrame == <<component, fdVars, chVars, dbVars, hVars, pVars, mVars>>
dbFrame == <<component, fdVars, chVars, trVars, hVars, pVars, mVars>>
hFrame == <<component, fdVars, chVars, trVars, pVars, mVars>>
pFrame == <<component, fdVars, trVars, hVars, mVars>>
mFrame == <<component, fdVars, trVars>>

\* Python's None, where an integer argument may be None.
None == -1

Min(a, b) == IF a <= b THEN a ELSE b

RECURSIVE SumSeq(_)
SumSeq(s) == IF s = <<>> THEN 0 ELSE Head(s) + SumSeq(Tail(s))

(***************************************************************************)
(* APIClient.fetch_data(limit, offset, retries, wait)                      *)
(***************************************************************************)
MaxRetries == 3
MaxWait == 2

\* What one pd.read_csv(url) can do: return a frame, raise
\* requests.RequestException, raise another Exception, or raise something
\* that is no Exception (KeyboardInterrupt, SystemExit), which no except
\* clause of fetch_data catches.
ReadOutcomes == {"ok", "RequestException", "Exception", "BaseException"}

ReadEvent(outcome) == [ev |-> "read", arg |-> outcome, dur |-> 0]
SleepEvent(w) == [ev |-> "sleep", arg |-> "", dur |-> w]

FdIdle ==
    /\ fd_pc = "idle" /\ retries = 0 /\ wait = 0 /\ attempt = 0
    /\ fd_log = <<>> /\ fd_result = "none"

FdInit ==
    /\ fd_pc = "loop"
    /\ retries \in 0..MaxRetries
    /\ wait \in 0..MaxWait
    /\ attempt = 0
    /\ fd_log = <<>>
    /\ fd_result = "none"

\* A plausible slip: every failed attempt sleeps, the last one too.
SleepAfterEveryFailure(att, n, w) == <<SleepEvent(w)>>

\* The sleep of a failed attempt: only when another attempt follows.
SleepAfterFailure(att, n, w) == IF att < n - 1 THEN <<SleepEvent(w)>> ELSE <<>>

\* One iteration of `for attempt in range(retries)`.
FetchAttempt ==
    /\ fd_pc = "loop"
    /\ attempt < retries
    /\ \E outcome \in ReadOutcomes :
         CASE outcome = "ok" ->
                /\ fd_log' = Append(fd_log, ReadEvent(outcome))
                /\ fd_result' = "df"
                /\ fd_pc' = "done"
                /\ attempt' = attempt
           [] outcome \in {"RequestException", "Exception"} ->
                /\ fd_log' = Append(fd_log, ReadEvent(outcome))
                                \o SleepAfterFailure(attempt, retries, wait)
                /\ attempt' = attempt + 1
                /\ UNCHANGED <<fd_pc, fd_result>>
           [] OTHER ->
                /\ fd_log' = Append(fd_log, ReadEvent(outcome))
                /\ fd_result' = "raised"
                /\ fd_pc' = "done"
                /\ attempt' = attempt
    /\ UNCHANGED <<retries, wait>>
    /\ UNCHANGED fdFrame

\* The loop is exhausted: log the failure and return pd.DataFrame().
FetchGiveUp ==
    /\ fd_pc = "loop"
    /\ attempt >= retries
    /\ fd_result' = "empty"
    /\ fd_pc' = "done"
    /\ UNCHANGED <<retries, wait, attempt, fd_log>>
    /\ UNCHANGED fdFrame

FdNext == FetchAttempt \/ FetchGiveUp

IsRead(e) == e.ev = "read"
IsSleep(e) == e.ev = "sleep"

\* Every read of the call so far raised an exception that fetch_data catches.
AllAttemptsFailed ==
    \A i \in 1..Len(fd_log) :
        IsRead(fd_log[i]) => fd_log[i].arg \in {"RequestException", "Exception"}

\* C1: a call of fetch_data all of whose attempts failed with an exception
\* has made exactly `retries` reads, with one sleep of `wait` between two
\* consecutive reads and none after the last (retries-1 sleeps when
\* retries >= 1), and has returned the empty frame; it has not raised.
C1_RetriesThenEmpty ==
    (fd_pc = "done" /\ AllAttemptsFailed) =>
        /\ Len(SelectSeq(fd_log, IsRead)) = retries
        /\ \A i \in 1..Len(fd_log) :
              /\ (i % 2 = 1) => IsRead(fd_log[i])
              /\ (i % 2 = 0) => (IsSleep(fd_log[i]) /\ fd_log[i].dur = wait)
        /\ (fd_log /= <<>> => IsRead(fd_log[Len(fd_log)]))
        /\ (retries >= 1 => Len(SelectSeq(fd_log, IsSleep)) = retries - 1)
        /\ fd_result = "empty"

\* Three attempts failed, one with a requests error and one with another
\* exception, and the call has returned the empty frame.
C1_Witness ==
    /\ fd_pc = "done" /\ fd_result = "empty"
    /\ retries = 3 /\ wait = 2
    /\ Len(fd_log) = 5
    /\ fd_log[1].arg = "RequestException"
    /\ fd_log[3].arg = "Exception"
    /\ fd_log[2] = SleepEvent(2)

(***************************************************************************)
(* Cells of a DataFrame.  Every cell is a record [k, v, s]:                *)
(*   Str(d)   a string of the case_month column that parses as the date d  *)
(*            (d >= 1), or that does not parse as a date (d = 0)           *)
(*   Ts(d)    a Timestamp: the date d                                      *)
(*   NaT      the missing Timestamp                                        *)
(*   NaN      a missing value                                              *)
(*   Text(s)  another string, s its characters                             *)
(*   Num(n)   a number (the numbers of the model are integral)             *)
(***************************************************************************)
Str(d) == [k |-> "str", v |-> d, s |-> <<>>]
Ts(d) == [k |-> "ts", v |-> d, s |-> <<>>]
NaN == [k |-> "nan", v |-> 0, s |-> <<>>]
NaT == [k |-> "nat", v |-> 0, s |-> <<>>]
Text(s) == [k |-> "text", v |-> 0, s |-> s]
Num(n) == [k |-> "num", v |-> n, s |-> <<>>]

\* pd.isnull / what dropna and fillna treat as missing
IsNull(c) == c.k \in {"nan", "nat"}

\* The dates of the model, in calendar order.
Dates == {1, 2}
NoDate == 0

\* A plausible slip: only strings are parsed, a Timestamp is coerced to NaT.
ToDatetimeOfStringsOnly(c) ==
    IF c.k = "str" /\ c.v >= 1 THEN Ts(c.v) ELSE NaT

\* pd.to_datetime(cell, errors='coerce')
ToDatetime(c) ==
    CASE c.k = "str" /\ c.v >= 1 -> Ts(c.v)
      [] c.k = "ts" -> c
      [] OTHER -> NaT

(***************************************************************************)
(* APIClient.fetch_data_chunked(chunk_size, max_rows, start_date, end_date)*)
(***************************************************************************)
MaxChunk == 2
MaxMaxRows == 3
MaxRequests == 3

\* The sequences over S of length at most n.
SeqsUpTo(S, n) == UNION {[1..k -> S] : k \in 0..n}

\* The pages fetch_data(limit, offset) can return: the rows the source
\* sends, with or without a case_month column; the empty frame stands for an
\* empty page and for a fetch that failed on every retry alike.  A source
\* that honours the limit sends at most lim rows; one that does not is
\* modelled by a page of one row more.
PageCells == {Str(0)} \cup {Str(d) : d \in Dates}
Pages(lim) ==
    {[has_case_month |-> TRUE, rows |-> r] : r \in SeqsUpTo(PageCells, lim + 1)}
    \cup {[has_case_month |-> FALSE, rows |-> r] : r \in SeqsUpTo({NaN}, lim + 1)}

\* A plausible slip: the rows still allowed are not taken into account.
LimitIgnoringBudget(cs, mr, total) == cs

\* A plausible slip: the rows already yielded are not taken off the budget.
LimitOfWholeBudget(cs, mr, total) ==
    IF mr /= None /\ mr /= 0 THEN Min(cs, mr) ELSE cs

\* limit = min(chunk_size, max_rows - total_rows) if max_rows else chunk_size
Limit(cs, mr, total) ==
    IF mr /= None /\ mr /= 0 THEN Min(cs, mr - total) ELSE cs

\* chunk[chunk['case_month'].dt.date >= start_date], then <= end_date, on the
\* parsed column; a comparison with NaT is false.
InRange(c, sd, ed) ==
    /\ (sd /= NoDate => (c.k = "ts" /\ c.v >= sd))
    /\ (ed /= NoDate => (c.k = "ts" /\ c.v <= ed))

Parsed(rows) == [i \in 1..Len(rows) |-> ToDatetime(rows[i])]

DateFilter(page, sd, ed) ==
    IF sd /= NoDate \/ ed /= NoDate
    THEN IF page.has_case_month
         THEN LET Keep(c) == InRange(c, sd, ed)
              IN SelectSeq(Parsed(page.rows), Keep)
         ELSE page.rows
    ELSE page.rows

\* A plausible slip: the offset advances by the rows the batch held.
NextOffsetByFetched(off, cs, fetched) == off + fetched

\* offset += chunk_size
NextOffset(off, cs, fetched) == off + cs

\* A plausible slip: only an empty batch ends the sequence.
EndOfDataOnlyWhenEmpty(fetched, lim) == fetched = 0

\* A plausible slip: the comparison with the limit is off by one.
EndOfDataOffByOne(fetched, lim) == fetched < lim - 1

\* if fetched < limit: break
EndOfData(fetched, lim) == fetched < lim

\* A plausible slip: the loop goes on until the budget is exceeded.
BudgetExceeded(mr, total) == mr /= None /\ total > mr

\* if max_rows is not None and total_rows >= max_rows: break
BudgetSpent(mr, total) == mr /= None /\ total >= mr

\* A plausible slip: a batch the filter emptied is yielded like any other.
EmptiedNever(filtered, sd, ed) == FALSE

\* A plausible slip: only start_date is tested.
EmptiedByStartDate(filtered, sd, ed) == filtered = <<>> /\ sd /= NoDate

\* if chunk.empty and (start_date or end_date): break
EmptiedByFilter(filtered, sd, ed) ==
    filtered = <<>> /\ (sd /= NoDate \/ ed /= NoDate)

ChIdle ==
    /\ gen_pc = "idle" /\ chunk_size = 0 /\ max_rows = None
    /\ start_date = NoDate /\ end_date = NoDate /\ offset = 0
    /\ total_rows = 0 /\ limit = 0 /\ chunk = <<>>
    /\ requests = <<>> /\ yielded = <<>>

ChInit ==
    /\ gen_pc = "start"
    /\ chunk_size \in 0..MaxChunk
    /\ max_rows \in {None} \cup 0..MaxMaxRows
    /\ start_date \in {NoDate} \cup Dates
    /\ end_date \in {NoDate} \cup Dates
    /\ offset = 0
    /\ total_rows = 0
    /\ limit = 0
    /\ chunk = <<>>
    /\ requests = <<>>
    /\ yielded = <<>>

\* From the top of `while True` to the next yield or to the end, with the
\* locals as they are at the top of the loop.
LoopTop(off, total) ==
    IF BudgetSpent(max_rows, total)
    THEN /\ gen_pc' = "done"
         /\ UNCHANGED <<limit, chunk, requests, yielded>>
    ELSE LET lim == Limit(chunk_size, max_rows, total) IN
         /\ Len(requests) < MaxRequests
         /\ limit' = lim
         /\ \E page \in Pages(lim) :
              LET filtered == DateFilter(page, start_date, end_date) IN
              /\ requests' = Append(requests,
                     [limit |-> lim, offset |-> off, raw |-> Len(page.rows),
                      kept |-> Len(filtered)])
              /\ IF page.rows = <<>>
                 THEN gen_pc' = "done" /\ UNCHANGED <<chunk, yielded>>
                 ELSE IF EmptiedByFilter(filtered, start_date, end_date)
                 THEN gen_pc' = "done" /\ chunk' = filtered /\ UNCHANGED yielded
                 ELSE /\ gen_pc' = "suspended"
                      /\ chunk' = filtered
                      /\ yielded' = Append(yielded, Len(filtered))

\* The first next() of the generator: from the call to the first yield or
\* the end.
GenFirst ==
    /\ gen_pc = "start"
    /\ LoopTop(offset, total_rows)
    /\ UNCHANGED <<offset, total_rows>>
    /\ UNCHANGED <<chunk_size, max_rows, start_date, end_date>>

\* The first next(), the generator run on its own.
GenStart == GenFirst /\ UNCHANGED chFrame

\* A later next() of the generator: the statements after the yield, then the
\* loop again.
GenAgain ==
    /\ gen_pc = "suspended"
    /\ LET fetched == Len(chunk)
           total == total_rows + fetched
           off == NextOffset(offset, chunk_size, fetched)
       IN /\ total_rows' = total
          /\ offset' = off
          /\ IF EndOfData(fetched, limit)
             THEN /\ gen_pc' = "done"
                  /\ UNCHANGED <<limit, chunk, requests, yielded>>
             ELSE LoopTop(off, total)
    /\ UNCHANGED <<chunk_size, max_rows, start_date, end_date>>

\* A later next(), the generator run on its own.
GenResume == GenAgain /\ UNCHANGED chFrame

ChNext == GenStart \/ GenResume

\* Every page so far held at most the rows asked for.
SourceHonoursLimit == \A i \in 1..Len(requests) : requests[i].raw <= requests[i].limit

\* The batches yielded whose statements after the yield have run.
Resumed == IF gen_pc = "suspended" THEN Len(yielded) - 1 ELSE Len(yielded)

\* C2: with max_rows set and a source that sends at most the limit asked
\* for, the rows of all batches yielded so far never exceed max_rows.
C2_YieldedWithinMaxRows ==
    (max_rows /= None /\ SourceHonoursLimit) => SumSeq(yielded) <= max_rows

\* Two batches were yielded, the second under the limit the budget left,
\* and together they hold exactly max_rows rows.
C2_Witness ==
    /\ max_rows = 3 /\ chunk_size = 2 /\ SourceHonoursLimit
    /\ Len(yielded) = 2 /\ SumSeq(yielded) = 3
    /\ requests[2].limit = 1

\* C3: offset starts at 0 and has advanced by chunk_size for every batch
\* yielded and resumed, whatever the limit and the row count of the batch;
\* the k-th page request (from 0) carries offset k * chunk_size.
C3_OffsetAdvancesByChunkSize ==
    /\ offset = Resumed * chunk_size
    /\ \A k \in 1..Len(requests) : requests[k].offset = (k - 1) * chunk_size

\* The second batch was asked for at offset chunk_size and lost a row to the
\* date filter; the offset still went on to 2 * chunk_size.
C3_Witness ==
    /\ chunk_size = 2 /\ gen_pc = "done"
    /\ Len(yielded) = 2 /\ Len(requests) = 2
    /\ requests[2].offset = 2 /\ requests[2].raw = 2 /\ yielded[2] = 1
    /\ offset = 4

\* With no date filter and no max_rows, every page so far but the last was
\* full and the last is short and not empty.
FullPagesThenShort ==
    /\ start_date = NoDate /\ end_date = NoDate /\ max_rows = None
    /\ requests /= <<>>
    /\ \A i \in 1..(Len(requests) - 1) : requests[i].raw = chunk_size
    /\ requests[Len(requests)].raw \in 1..(chunk_size - 1)

\* C10: with no date filter and no max_rows, after k-1 full pages and a
\* short non-empty k-th page, exactly k batches have been yielded for k page
\* requests, and the next step ends the generator with no further request
\* and no further batch.
C10_FullPagesThenShortEnds ==
    /\ [](FullPagesThenShort =>
            /\ Len(yielded) = Len(requests)
            /\ gen_pc \in {"suspended", "done"}
            /\ (gen_pc = "suspended" => ENABLED GenResume))
    /\ [][FullPagesThenShort =>
            /\ gen_pc' = "done"
            /\ requests' = requests
            /\ yielded' = yielded]_vars

\* k = 2: a full page, a short one, two batches, and the generator ended.
C10_Witness ==
    /\ FullPagesThenShort /\ gen_pc = "done"
    /\ chunk_size = 2
    /\ Len(requests) = 2 /\ yielded = <<2, 1>>

\* The rows of the batches yielded before the k-th page request: every
\* request but the one that ends the sequence is followed by one yield.
YieldedBefore(k) == SumSeq(SubSeq(yielded, 1, k - 1))

\* C11: every page request carries limit = min(chunk_size, max_rows - rows
\* yielded so far) when max_rows is set and limit = chunk_size when it is
\* not; with max_rows = 3 and chunk_size = 2 (the spec's 150 and 100 scaled
\* down) a full first page gives limits 2 then 1 and no third request.
C11_LimitIsChunkOrBudget ==
    /\ \A k \in 1..Len(requests) :
          requests[k].limit =
              IF max_rows /= None
              THEN Min(chunk_size, max_rows - YieldedBefore(k))
              ELSE chunk_size
    /\ (max_rows = 3 /\ chunk_size = 2 /\ requests /= <<>> /\ requests[1].raw = 2) =>
          /\ Len(requests) <= 2
          /\ Len(requests) = 2 => requests[2].limit = 1

\* max_rows = 3, chunk_size = 2: a full first page, then the second request
\* with limit 1, and the generator ended after two requests.
C11_Witness ==
    /\ max_rows = 3 /\ chunk_size = 2 /\ gen_pc = "done"
    /\ Len(requests) = 2 /\ requests[1].raw = 2
    /\ requests[1].limit = 2 /\ requests[2].limit = 1

\* The generator is at a yield and its next step issues a page request.
WouldRequestAgain ==
    /\ gen_pc = "suspended"
    /\ ~EndOfData(Len(chunk), limit)
    /\ ~BudgetSpent(max_rows, total_rows + Len(chunk))

\* C15 as claimed: the generator ends after finitely many page requests
\* whatever the arguments are and whatever the source sends.  The source has
\* finitely many pages to choose from at each request, so the claim says
\* that some number of requests is the last; the model lets the source
\* answer MaxRequests requests, and by then the generator would have ended
\* or be about to end.
C15_EndsForEverySource ==
    Len(requests) >= MaxRequests => ~WouldRequestAgain

\* C15 as amended: with max_rows set no more than max_rows page requests are
\* made, whatever the source sends; with max_rows not set the generator
\* ends when a page comes back empty, is emptied by the date filter or is
\* left with fewer rows than the limit, and asks for the next page while the
\* pages stay full.
C15_EndsWithBudgetOrShortPage ==
    /\ max_rows /= None =>
          /\ Len(requests) <= max_rows
          /\ Len(requests) = max_rows => ~WouldRequestAgain
    /\ (max_rows = None /\ requests /= <<>>) =>
          LET last == requests[Len(requests)]
          IN IF last.kept = 0 \/ last.kept < last.limit
             THEN ~WouldRequestAgain
             ELSE WouldRequestAgain

\* max_rows = 3 and pages of one row: the third request was the last.
C15_Witness ==
    /\ max_rows = 3 /\ chunk_size = 1 /\ gen_pc = "done"
    /\ Len(requests) = 3 /\ yielded = <<1, 1, 1>>

\* C16: the end-of-data stop is decided on the raw row count of the page: a
\* page of fewer raw rows than the limit ends the sequence after its batch
\* is yielded, and a page of exactly limit raw rows that the date filter
\* shrank to a smaller batch that is not empty does not (the next page is
\* asked for, the budget of max_rows allowing).
C16_StopDecidedOnRawCount ==
    requests /= <<>> =>
        LET last == requests[Len(requests)] IN
        /\ (last.kept >= 1 /\ last.raw < last.limit) =>
              /\ Len(yielded) = Len(requests)
              /\ ~WouldRequestAgain
        /\ (/\ last.raw = last.limit
            /\ last.kept >= 1 /\ last.kept < last.raw
            /\ ~BudgetSpent(max_rows, SumSeq(yielded))) =>
              WouldRequestAgain

\* C17: with a date range set, a page that is not empty and that the filter
\* leaves no row of ends the generator at once: its batch is not yielded
\* and it is the last page request.
C17_EmptiedPageEndsAtOnce ==
    \A k \in 1..Len(requests) :
        (/\ start_date /= NoDate \/ end_date /= NoDate
         /\ requests[k].raw >= 1 /\ requests[k].kept = 0) =>
            /\ gen_pc = "done"
            /\ k = Len(requests)
            /\ Len(yielded) = k - 1

\* A first batch was yielded; the second page held two rows, none of them in
\* the range, and the generator ended with one batch yielded.
C17_Witness ==
    /\ start_date /= NoDate /\ chunk_size = 2 /\ gen_pc = "done"
    /\ Len(requests) = 2 /\ requests[2].raw = 2 /\ requests[2].kept = 0
    /\ Len(yielded) = 1

\* a / b rounded up, for b >= 1.
CeilDiv(a, b) == (a + b - 1) \div b

\* The row range [offset, offset + limit) the k-th page request asks for.
RangeEnd(k) == requests[k].offset + requests[k].limit

\* C21: for chunk_size >= 1 and a source that sends at most the limit asked
\* for, every page request but the last was followed by a batch of exactly
\* chunk_size rows and carried limit = chunk_size; the row ranges
\* [offset, offset + limit) asked for start at 0, each begins where the one
\* before ends, and no two overlap; and with max_rows set at most
\* ceil(max_rows / chunk_size) page requests are made, the generator asking
\* for no further page once that many were made.
C21_FullBatchBeforeNextRequest ==
    (chunk_size >= 1 /\ SourceHonoursLimit) =>
        /\ Len(yielded) >= Len(requests) - 1
        /\ \A k \in 1..(Len(requests) - 1) :
              /\ yielded[k] = chunk_size
              /\ requests[k].limit = chunk_size
              /\ requests[k + 1].offset = RangeEnd(k)
        /\ requests /= <<>> => requests[1].offset = 0
        /\ \A i, j \in 1..Len(requests) :
              i < j => RangeEnd(i) <= requests[j].offset
        /\ max_rows /= None =>
              /\ Len(requests) <= CeilDiv(max_rows, chunk_size)
              /\ Len(requests) = CeilDiv(max_rows, chunk_size) =>
                    ~WouldRequestAgain

\* chunk_size = 2 and max_rows = 3 on a source that honours the limit: a
\* full batch of rows [0, 2), then the request for rows [2, 3), and the
\* generator ended after ceil(3 / 2) = 2 requests.
C21_Witness ==
    /\ chunk_size = 2 /\ max_rows = 3 /\ SourceHonoursLimit
    /\ gen_pc = "done" /\ Len(requests) = 2
    /\ requests[1].offset = 0 /\ RangeEnd(1) = 2
    /\ requests[2].offset = 2 /\ RangeEnd(2) = 3
    /\ yielded[1] = 2

(***************************************************************************)
(* DataTransformer.clean_and_transform(df)                                 *)
(* A DataFrame is [cols, rows]: the set of its column names and its rows   *)
(* in order, each row [idx, cells] with idx its index label (read_csv      *)
(* numbers the rows 0, 1, ...; dropna keeps the labels) and cells its cell *)
(* of every column.                                                        *)
(***************************************************************************)
MaxBatch == 2

numerical_cols == <<"case_positive_specimen_interval", "case_onset_interval">>
str_cols == <<"res_state", "age_group", "sex", "race", "ethnicity", "exposure_yn",
              "current_status", "symptom_status", "death_yn", "hosp_yn", "icu_yn",
              "underlying_conditions_yn">>
location_cols == <<"res_state", "state_fips_code">>

Unknown == Text(<<"U", "n", "k", "n", "o", "w", "n">>)

\* df.empty: no rows or no columns
Empty(df) == df.rows = <<>> \/ df.cols = {}

\* df[col] = Fn(df[col]), cell by cell
SetCell(row, col, cell) == [row EXCEPT !.cells[col] = cell]

\* A plausible slip: the result of dropna is not kept.
DropNaKeepingAll(df, col) == df

\* df.dropna(subset=[col]): the rows whose cell of col is not missing

DropNa(df, col) ==
    LET Has(row) == ~IsNull(row.cells[col])
    IN [df EXCEPT !.rows = SelectSeq(df.rows, Has)]

\* str.strip(): the characters without the leading and trailing blanks
RECURSIVE LStrip(_)
LStrip(s) == IF s /= <<>> /\ Head(s) = " " THEN LStrip(Tail(s)) ELSE s

RECURSIVE RStrip(_)
RStrip(s) ==
    IF s /= <<>> /\ s[Len(s)] = " " THEN RStrip(SubSeq(s, 1, Len(s) - 1)) ELSE s

Strip(s) == RStrip(LStrip(s))

DigitChars == <<"0", "1", "2", "3", "4", "5", "6", "7", "8", "9">>
IsDigit(ch) == \E d \in 1..10 : DigitChars[d] = ch
DigitValue(ch) == (CHOOSE d \in 1..10 : DigitChars[d] = ch) - 1

RECURSIVE Decimal(_)
\* str(n) of an integer n
Decimal(n) ==
    IF n < 0 THEN <<"-">> \o Decimal(-n)
    ELSE IF n < 10 THEN <<DigitChars[n + 1]>>
    ELSE Append(Decimal(n \div 10), DigitChars[(n % 10) + 1])

RECURSIVE DigitsValue(_)
DigitsValue(s) ==
    IF s = <<>> THEN 0
    ELSE 10 * DigitsValue(SubSeq(s, 1, Len(s) - 1)) + DigitValue(s[Len(s)])

AllDigits(s) == s /= <<>> /\ \A i \in 1..Len(s) : IsDigit(s[i])

\* pd.to_numeric(cell, errors='coerce'): a number, the number a string
\* spells (blanks around it ignored), or NaN
ToNumeric(c) ==
    LET t == Strip(c.s) IN
    CASE c.k = "num" -> c
      [] c.k = "text" /\ AllDigits(t) -> Num(DigitsValue(t))
      [] c.k = "text" /\ t /= <<>> /\ Head(t) = "-" /\ AllDigits(Tail(t)) ->
            Num(0 - DigitsValue(Tail(t)))
      [] OTHER -> NaN

\* .fillna(value)
FillNa(c, value) == IF IsNull(c) THEN value ELSE c

\* A plausible slip: the missing values are not filled.
CoerceIntWithoutFill(c) == ToNumeric(c)

\* pd.to_numeric(df[col], errors='coerce').fillna(0).astype(int)
CoerceInt(c) == FillNa(ToNumeric(c), Num(0))

\* .astype(str) of a cell that is not missing
AsStr(c) ==
    CASE c.k = "text" -> c
      [] c.k = "num" -> Text(Decimal(c.v))
      [] OTHER -> c

\* df[col].fillna('Unknown').astype(str).str.strip()
StandardizeStr(c) == Text(Strip(AsStr(FillNa(c, Unknown)).s))

RECURSIVE CoerceNumerical(_, _)
\* for col in numerical_cols: if col in df.columns: ...
CoerceNumerical(df, cols) ==
    IF cols = <<>> THEN df
    ELSE LET col == Head(cols)
             next == IF col \in df.cols
                     THEN [df EXCEPT !.rows =
                            [i \in 1..Len(df.rows) |->
                               SetCell(df.rows[i], col, CoerceInt(df.rows[i].cells[col]))]]
                     ELSE df
         IN CoerceNumerical(next, Tail(cols))

RECURSIVE StandardizeStrings(_, _)
\* for col in str_cols: if col in df.columns: ...
StandardizeStrings(df, cols) ==
    IF cols = <<>> THEN df
    ELSE LET col == Head(cols)
             next == IF col \in df.cols
                     THEN [df EXCEPT !.rows =
                            [i \in 1..Len(df.rows) |->
                               SetCell(df.rows[i], col, StandardizeStr(df.rows[i].cells[col]))]]
                     ELSE df
         IN StandardizeStrings(next, Tail(cols))

RECURSIVE DropMissingLocation(_, _)
\* for col in location_cols: if col in df.columns: df = df.dropna(subset=[col])
DropMissingLocation(df, cols) ==
    IF cols = <<>> THEN df
    ELSE LET col == Head(cols)
             next == IF col \in df.cols THEN DropNa(df, col) ELSE df
         IN DropMissingLocation(next, Tail(cols))

\* df['case_month'] = pd.to_datetime(df['case_month'], errors='coerce')
\* df = df.dropna(subset=['case_month'])
ParseCaseMonth(df) ==
    IF "case_month" \in df.cols
    THEN DropNa([df EXCEPT !.rows =
                   [i \in 1..Len(df.rows) |->
                      SetCell(df.rows[i], "case_month",
                              ToDatetime(df.rows[i].cells["case_month"]))]],
                "case_month")
    ELSE df

\* if 'process' not in df.columns: df['process'] = 'Unknown'
EnsureProcess(df) ==
    IF "process" \in df.cols THEN df
    ELSE [cols |-> df.cols \cup {"process"},
          rows |-> [i \in 1..Len(df.rows) |->
                      [idx |-> df.rows[i].idx,
                       cells |-> [c \in df.cols \cup {"process"} |->
                                    IF c = "process" THEN Unknown
                                    ELSE df.rows[i].cells[c]]]]]

\* clean_and_transform(df): what it returns.  (Its first assignments also
\* write into the caller's frame; no caller reads that frame again.)
CleanAndTransform(df) ==
    IF Empty(df) THEN df
    ELSE EnsureProcess(
           DropMissingLocation(
             StandardizeStrings(
               CoerceNumerical(ParseCaseMonth(df), numerical_cols),
               str_cols),
             location_cols))

\* The batches the model feeds the transformer: the columns a batch may
\* hold and, per column, the cells a source row may hold in it.
InputCols == {"case_month", "res_state", "state_fips_code",
              "case_positive_specimen_interval", "case_onset_interval", "process"}
CellsOf(col) ==
    CASE col = "case_month" -> {NaN, Str(0), Str(1)}
      [] col = "res_state" -> {NaN, Text(<<" ", "N", "Y">>)}
      [] col = "state_fips_code" -> {NaN, Num(36)}
      [] col = "case_positive_specimen_interval" -> {NaN, Num(1), Num(-4)}
      [] col = "case_onset_interval" ->
            {NaN, Text(<<"x">>), Text(<<"7">>), Text(<<"-", "3">>), Num(2)}
      [] OTHER -> {Text(<<"p">>)}

\* The cell of a column in a plain row: present, parsable, to be trimmed.
PlainCell(col) ==
    CASE col = "case_month" -> Str(1)
      [] col = "res_state" -> Text(<<" ", "N", "Y">>)
      [] col = "state_fips_code" -> Num(36)
      [] col = "case_positive_specimen_interval" -> Num(1)
      [] col = "case_onset_interval" -> Num(2)
      [] OTHER -> Text(<<"p">>)

\* The rows over the columns cols: a cell of each column, from CellsOf.  A
\* row differs from the plain row in its date and location cells or in its
\* interval cells, not in both at once.
RowCells(cols) ==
    LET Dom(col) == IF col \in cols THEN CellsOf(col) ELSE {NaN}
        Plain(col, cell) == col \notin cols \/ cell = PlainCell(col)
        choices ==
            {t \in Dom("case_month") \X Dom("res_state") \X Dom("state_fips_code")
                   \X Dom("case_onset_interval") \X Dom("process")
                   \X Dom("case_positive_specimen_interval") :
               \/ /\ Plain("case_onset_interval", t[4])
                  /\ Plain("case_positive_specimen_interval", t[6])
               \/ /\ Plain("case_month", t[1])
                  /\ Plain("res_state", t[2])
                  /\ Plain("state_fips_code", t[3])}
    IN {[c \in cols |->
           CASE c = "case_month" -> t[1]
             [] c = "res_state" -> t[2]
             [] c = "state_fips_code" -> t[3]
             [] c = "case_onset_interval" -> t[4]
             [] c = "case_positive_specimen_interval" -> t[6]
             [] OTHER -> t[5]] : t \in choices}

\* A frame as read_csv builds it: the rows labelled 0, 1, ... in order.
Frame(cols, cellrows) ==
    [cols |-> cols,
     rows |-> [i \in 1..Len(cellrows) |-> [idx |-> i - 1, cells |-> cellrows[i]]]]

NoFrame == [cols |-> {}, rows |-> <<>>]

TrIdle == tr_pc = "idle" /\ df_in = NoFrame /\ df_arg = NoFrame /\ df_out = NoFrame

TrInit ==
    /\ tr_pc = "input"
    /\ \E cols \in SUBSET InputCols :
         \E r \in SeqsUpTo(RowCells(cols), MaxBatch) : df_in = Frame(cols, r)
    /\ df_arg = NoFrame
    /\ df_out = NoFrame

\* transformer.clean_and_transform(df_in)
TransformOnce ==
    /\ tr_pc = "input"
    /\ df_arg' = df_in
    /\ df_out' = CleanAndTransform(df_in)
    /\ tr_pc' = "once"
    /\ UNCHANGED df_in
    /\ UNCHANGED trFrame

\* clean_and_transform applied to what it returned
TransformAgain ==
    /\ tr_pc = "once"
    /\ df_arg' = df_out
    /\ df_out' = CleanAndTransform(df_out)
    /\ tr_pc' = "twice"
    /\ UNCHANGED df_in
    /\ UNCHANGED trFrame

TrNext == TransformOnce \/ TransformAgain

\* The index labels of a frame's rows, as a set and in order.
Idxs(df) == {df.rows[i].idx : i \in 1..Len(df.rows)}
IdxSeq(rows) == [i \in 1..Len(rows) |-> rows[i].idx]

\* A case_month cell that holds a date: a Timestamp or a string spelling one.
Parsable(c) == c.k = "ts" \/ (c.k = "str" /\ c.v >= 1)

\* C4: no row of a non-empty batch with the res_state and state_fips_code
\* columns whose res_state or whose state_fips_code is missing appears in
\* the output of clean_and_transform.
C4_NoRowMissingLocation ==
    (/\ tr_pc = "once"
     /\ ~Empty(df_in)
     /\ {"res_state", "state_fips_code"} \subseteq df_in.cols) =>
        \A i \in 1..Len(df_in.rows) :
            (\/ IsNull(df_in.rows[i].cells["res_state"])
             \/ IsNull(df_in.rows[i].cells["state_fips_code"]))
            => df_in.rows[i].idx \notin Idxs(df_out)

\* C8: clean_and_transform applied to a batch it returned returns that
\* batch: the same columns, the same rows in the same order, the same cells.
C8_Idempotent == tr_pc = "twice" => df_out = df_arg

\* The first application dropped a row, parsed a date, trimmed a string and
\* added the process column; the second was given that output.
C8_Witness ==
    /\ tr_pc = "twice"
    /\ Len(df_in.rows) = 2 /\ Len(df_arg.rows) = 1
    /\ {"case_month", "res_state"} \subseteq df_in.cols
    /\ "process" \notin df_in.cols
    /\ df_arg.rows[1].cells["case_month"] = Ts(1)
    /\ df_arg.rows[1].cells["res_state"] = Text(<<"N", "Y">>)
    /\ df_arg.rows[1].cells["process"] = Unknown

\* C9: of a batch with a case_month column, clean_and_transform drops every
\* row whose case_month is missing or does not parse, and keeps, in input
\* order, every row whose case_month parses and whose res_state and
\* state_fips_code are not missing.
C9_CaseMonthDecidesRows ==
    (tr_pc = "once" /\ "case_month" \in df_in.cols) =>
        LET Present(row, col) == col \in df_in.cols => ~IsNull(row.cells[col])
            Good(row) == /\ Parsable(row.cells["case_month"])
                         /\ Present(row, "res_state")
                         /\ Present(row, "state_fips_code")
            goodIdx == IdxSeq(SelectSeq(df_in.rows, Good))
            WasGood(row) == \E i \in 1..Len(goodIdx) : goodIdx[i] = row.idx
        IN /\ \A i \in 1..Len(df_in.rows) :
                ~Parsable(df_in.rows[i].cells["case_month"])
                => df_in.rows[i].idx \notin Idxs(df_out)
           /\ IdxSeq(SelectSeq(df_out.rows, WasGood)) = goodIdx

\* Of two rows the first, whose case_month does not parse, was dropped and
\* the second, complete, was kept.
C9_Witness ==
    /\ tr_pc = "once"
    /\ {"case_month", "res_state", "state_fips_code"} \subseteq df_in.cols
    /\ Len(df_in.rows) = 2
    /\ df_in.rows[1].cells["case_month"] = Str(0)
    /\ df_in.rows[2].cells["case_month"] = Str(1)
    /\ IdxSeq(df_out.rows) = <<1>>

\* The text spells a whole number, blanks around it ignored.
SpellsInteger(s) ==
    LET t == Strip(s)
    IN AllDigits(t) \/ (t /= <<>> /\ Head(t) = "-" /\ AllDigits(Tail(t)))

\* The cell holds no value, or a text that is not a number.
MissingOrUnparsable(c) == IsNull(c) \/ (c.k = "text" /\ ~SpellsInteger(c.s))

\* The row of the frame with index label idx.
RowAt(df, idx) == CHOOSE row \in {df.rows[i] : i \in 1..Len(df.rows)} : row.idx = idx

\* The interval columns the batch given to clean_and_transform has.
IntervalColsOf(df) ==
    {numerical_cols[i] : i \in 1..Len(numerical_cols)} \cap df.cols

\* The cell of an interval column in the output is the integer n that the
\* input cell gives, and 0 where the input cell is missing or unparsable.
IntervalCoerced(col, row) ==
    LET out == row.cells[col]
        inp == RowAt(df_arg, row.idx).cells[col]
    IN /\ out.k = "num"
       /\ MissingOrUnparsable(inp) => out.v = 0

MaxLoads == 2
MaxLoadBatch == 2

\* NULL and a DATE of the table
Null == [k |-> "null", v |-> 0, s |-> <<>>]
Date(d) == [k |-> "date", v |-> d, s |-> <<>>]

\* The columns of INSERT INTO cdc_covid_cases (...), in order.
insert_cols == <<"case_month", "res_state", "state_fips_code", "age_group",
                 "sex", "race", "ethnicity", "case_positive_specimen_interval",
                 "case_onset_interval", "process", "exposure_yn", "current_status",
                 "symptom_status", "hosp_yn", "icu_yn", "death_yn",
                 "underlying_conditions_yn">>
InsertCols == {insert_cols[i] : i \in 1..Len(insert_cols)}

\* UNIQUE KEY unique_case (case_month, res_state, age_group, sex, race, ethnicity)
unique_case == {"case_month", "res_state", "age_group", "sex", "race", "ethnicity"}

\* ON DUPLICATE KEY UPDATE death_yn=..., hosp_yn=..., icu_yn=...,
\* underlying_conditions_yn=...
update_cols == {"death_yn", "hosp_yn", "icu_yn", "underlying_conditions_yn"}

\* expected_cols: the default of a column the batch does not have
DefaultOf(col) ==
    CASE col = "case_month" -> Null
      [] col \in {"state_fips_code", "case_positive_specimen_interval",
                  "case_onset_interval"} -> Num(0)
      [] OTHER -> Unknown

\* row_data['case_month'].strftime('%Y-%m-%d') if pd.notnull(...) else None;
\* only a Timestamp has strftime.
CanFormat(c) == c.k \in {"ts", "nan", "nat", "null"}
CaseMonthStr(c) == IF c.k = "ts" THEN Str(c.v) ELSE Null

\* The value MySQL stores for a parameter of the statement.
Stored(col, c) ==
    CASE col = "case_month" /\ c.k = "str" /\ c.v >= 1 -> Date(c.v)
      [] IsNull(c) -> Null
      [] OTHER -> c

\* row_data and the tuple appended to rows, as the column values to store
RowData(df, row) ==
    [col \in InsertCols |-> IF col \in df.cols THEN row.cells[col] ELSE DefaultOf(col)]

RowValues(df, row) ==
    LET row_data == RowData(df, row)
    IN [col \in InsertCols |->
          Stored(col, IF col = "case_month" THEN CaseMonthStr(row_data[col])
                      ELSE row_data[col])]

\* Every row of the batch can be built (no strftime on a string).
CanBuildRows(df) ==
    \A i \in 1..Len(df.rows) : CanFormat(RowData(df, df.rows[i])["case_month"])

\* A stored record conflicts with new values on unique_case: every key column
\* is equal and not NULL (a UNIQUE index of MySQL admits any number of
\* records that hold NULL in a key column).
Conflicts(rec, values) ==
    \A col \in unique_case : rec.f[col] = values[col] /\ values[col] /= Null

\* INSERT ... ON DUPLICATE KEY UPDATE of one row, in a table with counter id:
\* the table after it.
UpsertRow(tbl, id, values) ==
    IF \E i \in 1..Len(tbl) : Conflicts(tbl[i], values)
    THEN [i \in 1..Len(tbl) |->
            IF Conflicts(tbl[i], values)
            THEN [tbl[i] EXCEPT !.f = [col \in InsertCols |->
                                         IF col \in update_cols THEN values[col]
                                         ELSE tbl[i].f[col]]]
            ELSE tbl[i]]
    ELSE Append(tbl, [id |-> id, f |-> values])

\* The counter after the row: an insert takes the next id.
IdAfter(tbl, id, values) ==
    IF \E i \in 1..Len(tbl) : Conflicts(tbl[i], values) THEN id ELSE id + 1

RECURSIVE ExecuteMany(_, _, _, _)
\* cursor.executemany(insert_sql, rows): the tables of the transaction, from
\* the one before the first row to the one after the last.
ExecuteMany(tbl, id, df, i) ==
    IF i > Len(df.rows) THEN <<tbl>>
    ELSE LET values == RowValues(df, df.rows[i])
         IN <<tbl>> \o ExecuteMany(UpsertRow(tbl, id, values),
                                   IdAfter(tbl, id, values), df, i + 1)

RECURSIVE IdAfterAll(_, _, _, _)
IdAfterAll(tbl, id, df, i) ==
    IF i > Len(df.rows) THEN id
    ELSE LET values == RowValues(df, df.rows[i])
         IN IdAfterAll(UpsertRow(tbl, id, values), IdAfter(tbl, id, values), df, i + 1)

\* The batches the model loads.  A row is one of two versions of a case: the
\* version decides every column outside the key, so that a later version
\* differs from an earlier one in all of them.
KeyTexts == {<<"N", "Y">>, <<"C", "A">>}
VersionText(v) == IF v = 1 THEN <<"a">> ELSE <<"b">>
LoadRow(cols, cm, rs, v) ==
    [col \in cols |->
       CASE col = "case_month" -> cm
         [] col = "res_state" -> Text(rs)
         [] col \in unique_case -> Text(<<"k">>)
         [] col \in {"state_fips_code", "case_positive_specimen_interval",
                     "case_onset_interval"} -> Num(v)
         [] OTHER -> Text(VersionText(v))]

LoadRows(cols) ==
    {LoadRow(cols, cm, rs, v) :
       cm \in (IF "case_month" \in cols THEN {NaT, Ts(1)} ELSE {NaN}),
       rs \in KeyTexts, v \in {1, 2}}
    \cup (IF "case_month" \in cols
          THEN {LoadRow(cols, Str(1), <<"N", "Y">>, 1)} ELSE {})

LoadColSets == {InsertCols, InsertCols \ {"case_month"}}

NoResult == [called |-> FALSE, committed |-> FALSE, rolled_back |-> FALSE,
             raised |-> "", cursor_closed |-> FALSE]

DbIdle ==
    /\ conn = "none" /\ table = <<>> /\ next_id = 1 /\ loads = 0
    /\ db_batch = NoFrame /\ db_before = <<>> /\ db_trace = <<>>
    /\ db_result = NoResult

\* MySQLHandler(...) connected and create_tables() created the empty table.
DbInit ==
    /\ conn = "open" /\ table = <<>> /\ next_id = 1 /\ loads = 0
    /\ db_batch = NoFrame /\ db_before = <<>> /\ db_trace = <<>>
    /\ db_result = NoResult

\* How a call of load_cdc_data(df) can go:
\*   "cursor"    self.conn.cursor() raises (the connection is lost)
\*   "build"     building rows raises (strftime on a string)
\*   "ok"        executemany and commit succeed
\*   "execute"   executemany raises mysql.connector.Error, rollback succeeds
\*   "commit"    commit raises mysql.connector.Error, rollback succeeds
\*   "execute_lost", "commit_lost"
\*               the connection is lost in executemany or in commit, which
\*               raises mysql.connector.Error, and so does rollback
\* executemany sends nothing for a batch without rows and cannot fail on it.
LoadOutcomes(df) ==
    IF conn /= "open" THEN {"cursor"}
    ELSE IF ~CanBuildRows(df) THEN {"build"}
    ELSE {"ok", "commit", "commit_lost"}
         \cup (IF df.rows /= <<>> THEN {"execute", "execute_lost"} ELSE {})

\* load_cdc_data(df), ending as outcome says
Load(df, outcome) ==
         /\ db_batch' = df
         /\ db_before' = table
         /\ loads' = loads + 1
         /\ CASE outcome = "cursor" ->
                   /\ db_result' = [called |-> TRUE, committed |-> FALSE,
                                    rolled_back |-> FALSE,
                                    raised |-> "mysql.connector.Error",
                                    cursor_closed |-> FALSE]
                   /\ db_trace' = <<>>
                   /\ UNCHANGED <<conn, table, next_id>>
              [] outcome = "build" ->
                   /\ db_result' = [called |-> TRUE, committed |-> FALSE,
                                    rolled_back |-> FALSE,
                                    raised |-> "AttributeError",
                                    cursor_closed |-> FALSE]
                   /\ db_trace' = <<>>
                   /\ UNCHANGED <<conn, table, next_id>>
              [] outcome = "ok" ->
                   LET trace == ExecuteMany(table, next_id, df, 1) IN
                   /\ db_trace' = trace
                   /\ table' = trace[Len(trace)]
                   /\ next_id' = IdAfterAll(table, next_id, df, 1)
                   /\ db_result' = [called |-> TRUE, committed |-> TRUE,
                                    rolled_back |-> FALSE, raised |-> "",
                                    cursor_closed |-> TRUE]
                   /\ UNCHANGED conn
              [] outcome \in {"execute", "commit"} ->
                   /\ db_trace' = <<>>
                   /\ db_result' = [called |-> TRUE, committed |-> FALSE,
                                    rolled_back |-> TRUE, raised |-> "",
                                    cursor_closed |-> TRUE]
                   /\ UNCHANGED <<conn, table, next_id>>
              [] OTHER ->
                   /\ db_trace' = <<>>
                   /\ conn' = "lost"
                   /\ db_result' = [called |-> TRUE, committed |-> FALSE,
                                    rolled_back |-> FALSE,
                                    raised |-> "mysql.connector.Error",
                                    cursor_closed |-> TRUE]
                   /\ UNCHANGED <<table, next_id>>

\* load_cdc_data(df), called on its own
LoadCdcData ==
    /\ conn \in {"open", "lost"}
    /\ loads < MaxLoads
    /\ \E cols \in LoadColSets : \E r \in SeqsUpTo(LoadRows(cols), MaxLoadBatch) :
       \E outcome \in LoadOutcomes(Frame(cols, r)) :
         Load(Frame(cols, r), outcome)
    /\ UNCHANGED dbFrame

\* The server goes out of reach between two calls.
ConnectionLost ==
    /\ conn = "open"
    /\ conn' = "lost"
    /\ UNCHANGED <<table, next_id, loads, db_batch, db_before, db_trace, db_result>>
    /\ UNCHANGED dbFrame

DbNext == LoadCdcData \/ ConnectionLost

\* The key of a record, as the tuple of its values (NULL is a value of it).
KeyTuple(f) == [col \in unique_case |-> f[col]]

\* What a conflicting upsert of values makes of a stored record.
WithVolatile(rec, values) ==
    [rec EXCEPT !.f = [col \in InsertCols |->
                         IF col \in update_cols THEN values[col] ELSE rec.f[col]]]

\* The row db_batch.rows[i] of the last call met a stored record of its key
\* (with HasKey deciding which keys count) and did what an upsert on a
\* conflict does: the records of that key took the row's four volatile
\* values and nothing else, no record was added, the others are unchanged.
UpsertedInPlace(i) ==
    LET t0 == db_trace[i]
        t1 == db_trace[i + 1]
        values == RowValues(db_batch, db_batch.rows[i])
    IN /\ Len(t1) = Len(t0)
       /\ \A j \in 1..Len(t0) :
             t1[j] = IF KeyTuple(t0[j].f) = KeyTuple(values)
                     THEN WithVolatile(t0[j], values)
                     ELSE t0[j]

MeetsStoredKey(i) ==
    LET values == RowValues(db_batch, db_batch.rows[i])
    IN \E j \in 1..Len(db_trace[i]) : KeyTuple(db_trace[i][j].f) = KeyTuple(values)

\* C5: a row that load_cdc_data upserts and whose key (case_month, res_state,
\* age_group, sex, race, ethnicity) equals that of a stored record changes
\* exactly death_yn, hosp_yn, icu_yn and underlying_conditions_yn of that
\* record to its own values; no record is added, no other record changes.
C5_UpsertUpdatesVolatileOnly ==
    db_result.committed =>
        \A i \in 1..Len(db_batch.rows) : MeetsStoredKey(i) => UpsertedInPlace(i)

\* What holds of the upsert: the same, for rows whose case_month is not NULL.
UpsertOnNonNullKey ==
    db_result.committed =>
        \A i \in 1..Len(db_batch.rows) :
            (/\ MeetsStoredKey(i)
             /\ RowValues(db_batch, db_batch.rows[i])["case_month"] /= Null)
            => UpsertedInPlace(i)

\* C6: no two stored records have the same tuple (case_month, res_state,
\* age_group, sex, race, ethnicity), whatever batches were loaded.
C6_KeyUnique ==
    \A i, j \in 1..Len(table) :
        i /= j => KeyTuple(table[i].f) /= KeyTuple(table[j].f)

\* What holds of the table: the keys without NULL are unique, and so are
\* the ids.
NonNullKeyUnique ==
    \A i, j \in 1..Len(table) :
        i /= j =>
            /\ table[i].id /= table[j].id
            /\ (KeyTuple(table[i].f) = KeyTuple(table[j].f)
                 => table[i].f["case_month"] = Null)

\* C7: a call of load_cdc_data either applied every row of its batch and
\* committed, or left the table as it was, rolled the transaction back and
\* raised nothing.
C7_AtomicAndSilent ==
    db_result.called =>
        \/ /\ db_result.committed
           /\ db_result.raised = ""
           /\ table = db_trace[Len(db_trace)]
        \/ /\ ~db_result.committed
           /\ table = db_before
           /\ db_result.rolled_back
           /\ db_result.raised = ""

\* What holds of load_cdc_data: every row of the batch is committed, or
\* none is.
AllOrNothing ==
    db_result.called =>
        \/ db_result.committed /\ table = db_trace[Len(db_trace)]
        \/ ~db_result.committed /\ table = db_before

(***************************************************************************)
(* MySQLHandler: query_total_cases_by_state, query_cases_by_age_group,     *)
(* query_cases_by_sex and close(), called in any order on a handler whose  *)
(* table earlier runs of the fetch command filled.                         *)
(***************************************************************************)
MaxQueries == 2
MaxCloses == 2

QueryNames == {"total_cases_by_state", "cases_by_age_group", "cases_by_sex"}

\* The column a query groups by.
GroupColumn(q) ==
    CASE q = "total_cases_by_state" -> "res_state"
      [] q = "cases_by_age_group" -> "age_group"
      [] OTHER -> "sex"

\* The state_code arguments of the model; None and "" add no WHERE clause.
NoState == <<>>
StateCodes == {NoState} \cup KeyTexts

\* The records the query reads: WHERE res_state = %s when state_code is set.
Selected(tbl, q, state_code) ==
    {i \in 1..Len(tbl) :
        (q = "total_cases_by_state" /\ state_code /= NoState)
            => tbl[i].f["res_state"] = Text(state_code)}

\* SELECT col, COUNT(*) AS total_cases ... GROUP BY col
GroupCounts(tbl, q, state_code) ==
    LET sel == Selected(tbl, q, state_code)
        col == GroupColumn(q)
    IN {[value |-> v, total_cases |-> Cardinality({i \in sel : tbl[i].f[col] = v})] :
          v \in {tbl[i].f[col] : i \in sel}}

\* ORDER BY total_cases DESC: the orders the server may return the groups in.
QueryResults(tbl, q, state_code) ==
    LET groups == GroupCounts(tbl, q, state_code)
        n == Cardinality(groups)
    IN {r \in [1..n -> groups] :
          /\ \A i, j \in 1..n : i /= j => r[i] /= r[j]
          /\ \A i \in 1..(n - 1) : r[i].total_cases >= r[i + 1].total_cases}

NoQuery == [called |-> FALSE, query |-> "", outcome |-> "", raised |-> "", rows |-> <<>>,
            cursor_closed |-> FALSE, before |-> <<>>]

HIdle == queries = 0 /\ q_result = NoQuery /\ close_calls = <<>>

\* The tables the handler is opened on: what one committed load leaves.
HandlerTables ==
    {LET trace == ExecuteMany(<<>>, 1, Frame(InsertCols, r), 1) IN trace[Len(trace)] :
        r \in SeqsUpTo({row \in LoadRows(InsertCols) : CanFormat(row["case_month"])},
                       MaxLoadBatch)}

\* MySQLHandler(...) connected; create_tables() found the table.
HInit ==
    /\ conn = "open" /\ table \in HandlerTables
    /\ next_id = Len(table) + 1 /\ loads = 0
    /\ db_batch = NoFrame /\ db_before = <<>> /\ db_trace = <<>>
    /\ db_result = NoResult
    /\ HIdle

\* How a query call can go:
\*   "no_conn"       self.conn is None: the empty frame is returned
\*   "cursor"        self.conn.cursor(dictionary=True) raises (the connection
\*                   is lost or closed); the call is outside the try
\*   "ok"            execute and fetchall succeed
\*   "execute"       execute raises mysql.connector.Error, which is caught
\*   "execute_lost"  the connection is lost during execute, which raises
\*                   mysql.connector.Error, which is caught
QueryOutcomes ==
    CASE conn = "none" -> {"no_conn"}
      [] conn = "open" -> {"ok", "execute", "execute_lost"}
      [] OTHER -> {"cursor"}

\* The query q called with state_code, ending as outcome says.
Query(q, state_code, outcome) ==
         /\ queries' = queries + 1
         /\ table' = table
         /\ CASE outcome = "ok" ->
                   /\ \E r \in QueryResults(table, q, state_code) :
                        q_result' = [called |-> TRUE, query |-> q, outcome |-> outcome, raised |-> "",
                                     rows |-> r, cursor_closed |-> TRUE,
                                     before |-> table]
                   /\ UNCHANGED conn
              [] outcome = "cursor" ->
                   /\ q_result' = [called |-> TRUE, query |-> q, outcome |-> outcome,
                                   raised |-> "mysql.connector.Error",
                                   rows |-> <<>>, cursor_closed |-> FALSE,
                                   before |-> table]
                   /\ UNCHANGED conn
              [] outcome = "no_conn" ->
                   /\ q_result' = [called |-> TRUE, query |-> q, outcome |-> outcome, raised |-> "",
                                   rows |-> <<>>, cursor_closed |-> FALSE,
                                   before |-> table]
                   /\ UNCHANGED conn
              [] OTHER ->
                   /\ q_result' = [called |-> TRUE, query |-> q, outcome |-> outcome, raised |-> "",
                                   rows |-> <<>>, cursor_closed |-> TRUE,
                                   before |-> table]
                   /\ conn' = IF outcome = "execute_lost" THEN "lost" ELSE conn

\* The state_code arguments a query takes.
StateCodesOf(q) == IF q = "total_cases_by_state" THEN StateCodes ELSE {NoState}

\* query_total_cases_by_state(state_code), query_cases_by_age_group(),
\* query_cases_by_sex(), called on their own
QueryData ==
    /\ queries < MaxQueries
    /\ \E q \in QueryNames : \E state_code \in StateCodesOf(q) :
       \E outcome \in QueryOutcomes :
         Query(q, state_code, outcome)
    /\ UNCHANGED <<next_id, loads, db_batch, db_before, db_trace, db_result>>
    /\ UNCHANGED close_calls
    /\ UNCHANGED hFrame

\* A plausible slip: the connection is tested and then left as it is.
ConnAfterCloseForgotten(c) == c

\* if self.conn and self.conn.is_connected(): self.conn.close()
ConnAfterClose(c) == IF c = "open" THEN "closed" ELSE c

\* close()
Close ==
    /\ Len(close_calls) < MaxCloses
    /\ conn' = ConnAfterClose(conn)
    /\ close_calls' = Append(close_calls,
           [before |-> conn, after |-> ConnAfterClose(conn), raised |-> ""])
    /\ UNCHANGED <<table, next_id, loads, db_batch, db_before, db_trace, db_result>>
    /\ UNCHANGED <<queries, q_result>>
    /\ UNCHANGED hFrame

HNext == QueryData \/ Close \/ ConnectionLost

\* C12: each of the three queries returns the empty result and raises
\* nothing when the connection is unavailable or the execution fails, and
\* leaves the table as it was however it ends.
C12_QueriesFailEmptyAndSilent ==
    q_result.called =>
        /\ q_result.outcome /= "ok" => (q_result.rows = <<>> /\ q_result.raised = "")
        /\ q_result.raised = ""
        /\ table = q_result.before

\* What holds of the queries: the table is left as it was, and a failure of
\* the execution that is caught gives the empty result.
QueriesReadOnly ==
    q_result.called =>
        /\ table = q_result.before
        /\ q_result.outcome \in {"no_conn", "execute", "execute_lost"} =>
              (q_result.rows = <<>> /\ q_result.raised = "")

\* C13: close() on an open connection closes it; on a connection that is
\* closed already (close() called again) or not connected it does nothing;
\* it never raises, and once close() was called the connection is not open.
C13_CloseIdempotent ==
    /\ \A k \in 1..Len(close_calls) :
          LET c == close_calls[k] IN
          /\ c.raised = ""
          /\ c.before = "open" => c.after = "closed"
          /\ c.before /= "open" => c.after = c.before
    /\ close_calls /= <<>> => conn /= "open"

\* close() closed the open connection; called again it left it closed.
C13_Witness ==
    /\ Len(close_calls) = 2 /\ conn = "closed"
    /\ close_calls[1].before = "open" /\ close_calls[1].after = "closed"
    /\ close_calls[2].before = "closed" /\ close_calls[2].after = "closed"

(***************************************************************************)
(* CLIManager._handle_fetch(args): the fetch command.  One step is one     *)
(* iteration of its for loop: the next() of the generator, then the loop   *)
(* body on the chunk it yielded.                                           *)
(***************************************************************************)
\* How many chunks the loop body takes in the model.
MaxChunks == 2

PIdle == h_pc = "idle" /\ h_log = <<>> /\ h_empty_branch = FALSE

\* The arguments are parsed, the generator is created, the handler is
\* connected and create_tables() made the empty table.
FetchArgs ==
    {[chunk_size |-> 1, max_rows |-> None, start_date |-> NoDate, end_date |-> NoDate],
     [chunk_size |-> 2, max_rows |-> None, start_date |-> NoDate, end_date |-> 1],
     [chunk_size |-> 2, max_rows |-> 3, start_date |-> 2, end_date |-> NoDate]}

PInit ==
    /\ ChInit
    /\ [chunk_size |-> chunk_size, max_rows |-> max_rows,
        start_date |-> start_date, end_date |-> end_date] \in FetchArgs
    /\ DbInit
    /\ h_pc = "loop" /\ h_log = <<>> /\ h_empty_branch = FALSE

\* The chunk the generator yielded, as a frame.  The model's pages hold the
\* case_month cell of each row; a page without a case_month column (rows of
\* NaN in Pages) is a frame of another column.
ChunkFrame(rows) ==
    IF \E i \in 1..Len(rows) : rows[i] /= NaN
    THEN Frame({"case_month"},
               [i \in 1..Len(rows) |-> [c \in {"case_month"} |-> rows[i]]])
    ELSE Frame({"res_state"},
               [i \in 1..Len(rows) |-> [c \in {"res_state"} |-> Text(<<"N", "Y">>)]])

\* How a call of load_cdc_data ended for its caller.
LoadEnded(outcome) ==
    CASE outcome = "ok" -> "committed"
      [] outcome \in {"execute", "commit"} -> "rolled_back"
      [] OTHER -> "raised"

\* One iteration of `for i, chunk in enumerate(fetch_data_chunked(...))`.
FetchIteration ==
    /\ h_pc = "loop"
    /\ Len(h_log) < MaxChunks
    /\ (GenFirst \/ GenAgain)
    /\ IF gen_pc' = "done"
       THEN /\ h_pc' = "completed"
            /\ UNCHANGED <<h_log, h_empty_branch>>
            /\ UNCHANGED dbVars
       ELSE \E df \in {ChunkFrame(chunk')} :
            IF Empty(df)
            THEN /\ h_empty_branch' = TRUE
                 /\ h_pc' = "completed"
                 /\ UNCHANGED h_log
                 /\ UNCHANGED dbVars
            ELSE \E transformed_data \in {CleanAndTransform(df)} :
                 IF Empty(transformed_data)
                 THEN /\ h_log' = Append(h_log,
                            [transformed |-> 0, load |-> "none"])
                      /\ h_pc' = "loop"
                      /\ UNCHANGED h_empty_branch
                      /\ UNCHANGED dbVars
                 ELSE \E outcome \in LoadOutcomes(transformed_data) :
                      /\ Load(transformed_data, outcome)
                      /\ h_log' = Append(h_log,
                            [transformed |-> Len(transformed_data.rows),
                             load |-> LoadEnded(outcome)])
                      /\ h_pc' = IF LoadEnded(outcome) = "raised"
                                 THEN "raised" ELSE "loop"
                      /\ UNCHANGED h_empty_branch

\* The fetch command run on its own.
HandleFetch == FetchIteration /\ UNCHANGED pFrame

PNext == HandleFetch

\* The entries of h_log for which load_cdc_data was called.
LoadCalls == {i \in 1..Len(h_log) : h_log[i].load /= "none"}

\* C18: a storage failure while one chunk is upserted does not stop the
\* fetch command: no exception leaves the loop, the loop goes on to the
\* next chunk until the generator ends, every chunk yielded is transformed,
\* in order, and load_cdc_data is called exactly once for each chunk whose
\* transform is not empty and never with an empty batch.
C18_StorageFailureDoesNotStop ==
    /\ h_pc /= "raised"
    /\ h_pc = "completed" => gen_pc = "done"
    /\ Len(h_log) = Len(yielded)
    /\ \A i \in 1..Len(h_log) : (h_log[i].load /= "none") <=> (h_log[i].transformed >= 1)
    /\ loads = Cardinality(LoadCalls)

\* What holds of the loop: a failure that load_cdc_data absorbs (it rolled
\* back and returned) does not stop it, every chunk taken was transformed,
\* and load_cdc_data was called once per chunk with a transform that is not
\* empty; an exception leaves the loop only from a load_cdc_data call that
\* raised.
AbsorbedFailureDoesNotStop ==
    /\ h_pc = "completed" => gen_pc = "done"
    /\ Len(h_log) = Len(yielded)
    /\ \A i \in 1..Len(h_log) : (h_log[i].load /= "none") <=> (h_log[i].transformed >= 1)
    /\ loads = Cardinality(LoadCalls)
    /\ h_pc = "raised" <=> (h_log /= <<>> /\ h_log[Len(h_log)].load = "raised")
    /\ \A i \in 1..(Len(h_log) - 1) : h_log[i].load /= "raised"

\* Every batch the generator yielded held a row (this holds for every
\* argument of SpecChunked as well).
NoEmptyBatchYielded ==
    /\ \A i \in 1..Len(yielded) : yielded[i] >= 1
    /\ gen_pc = "suspended" => chunk /= <<>>

\* C20: no batch the generator yields is empty, so the loop's branch for an
\* empty chunk is never taken.
C20_NoEmptyBatch == NoEmptyBatchYielded /\ ~h_empty_branch

\* With end_date set, a first batch was taken by the loop, then a page of
\* two rows was emptied by the filter: the generator ended, the loop
\* completed and its branch for an empty chunk was not taken.
C20_Witness ==
    /\ end_date /= NoDate /\ h_pc = "completed" /\ gen_pc = "done"
    /\ Len(requests) = 2 /\ requests[2].raw = 2 /\ requests[2].kept = 0
    /\ Len(yielded) = 1 /\ Len(h_log) = 1
    /\ ~h_empty_branch

(***************************************************************************)
(* main(), from `db_handler = None` on (config.ini was read): the try      *)
(* block, its except clause and its finally clause.  One step is one       *)
(* statement of the try block; the fetch command takes one step per        *)
(* iteration of its loop.                                                  *)
(***************************************************************************)
MIdle == main_pc = "idle" /\ db_handler = "None" /\ main_exc = ""

MInit ==
    /\ main_pc = "connect" /\ db_handler = "None" /\ main_exc = ""
    /\ ChIdle /\ DbIdle /\ HIdle /\ PIdle

\* db_handler = MySQLHandler(**db_config): connected, or __init__ re-raises
\* the mysql.connector.Error and db_handler stays None.
MainConnect ==
    /\ main_pc = "connect"
    /\ \E connected \in BOOLEAN :
         IF connected
         THEN /\ conn' = "open" /\ db_handler' = "handler"
              /\ main_pc' = "create_tables" /\ UNCHANGED main_exc
         ELSE /\ conn' = "none" /\ db_handler' = "None"
              /\ main_pc' = "finally" /\ main_exc' = "caught"
    /\ UNCHANGED <<table, next_id, loads, db_batch, db_before, db_trace, db_result>>
    /\ UNCHANGED <<chVars, hVars, pVars>>
    /\ UNCHANGED mFrame

\* How db_handler.create_tables() can go:
\*   "ok"            the statement and the commit succeed
\*   "execute"       they raise mysql.connector.Error, rollback succeeds
\*   "execute_lost"  the connection is lost: the error is caught and
\*                   rollback raises
\*   "cursor"        self.conn.cursor() raises (the connection is lost)
CreateOutcomes ==
    IF conn = "open" THEN {"ok", "execute", "execute_lost"} ELSE {"cursor"}

\* db_handler.create_tables()
MainCreateTables ==
    /\ main_pc = "create_tables"
    /\ \E outcome \in CreateOutcomes :
         IF outcome \in {"ok", "execute"}
         THEN main_pc' = "run" /\ UNCHANGED <<conn, main_exc>>
         ELSE /\ main_pc' = "finally" /\ main_exc' = "caught"
              /\ conn' = "lost"
    /\ UNCHANGED db_handler
    /\ UNCHANGED <<table, next_id, loads, db_batch, db_before, db_trace, db_result>>
    /\ UNCHANGED <<chVars, hVars, pVars>>
    /\ UNCHANGED mFrame

\* What the command line can be: a fetch command with its arguments (a date
\* that strptime rejects among them), a query_data command, no command, a
\* command line argparse rejects (or --help), which is SystemExit.
CommandLines == {"fetch", "fetch_bad_date", "query_data", "none", "rejected"}

\* cli = CLIManager(...); cli.run(): parse_args() and the start of the
\* command's handler.
MainRun ==
    /\ main_pc = "run"
    /\ \E cmd \in CommandLines :
         CASE cmd = "fetch" ->
                /\ \E args \in FetchArgs :
                     /\ chunk_size' = args.chunk_size /\ max_rows' = args.max_rows
                     /\ start_date' = args.start_date /\ end_date' = args.end_date
                /\ gen_pc' = "start" /\ h_pc' = "loop"
                /\ main_pc' = "fetch"
                /\ UNCHANGED <<offset, total_rows, limit, chunk, requests, yielded>>
                /\ UNCHANGED <<h_log, h_empty_branch, main_exc>>
           [] cmd = "query_data" ->
                /\ main_pc' = "query"
                /\ UNCHANGED <<chVars, pVars, main_exc>>
           [] cmd = "none" ->
                /\ main_pc' = "finally"
                /\ UNCHANGED <<chVars, pVars, main_exc>>
           [] cmd = "fetch_bad_date" ->
                /\ main_pc' = "finally" /\ main_exc' = "caught"
                /\ UNCHANGED <<chVars, pVars>>
           [] OTHER ->
                /\ main_pc' = "finally" /\ main_exc' = "SystemExit"
                /\ UNCHANGED <<chVars, pVars>>
    /\ UNCHANGED db_handler
    /\ UNCHANGED <<dbVars, hVars>>
    /\ UNCHANGED mFrame

\* _handle_query_data(args): the query of args.query_type; an exception it
\* raises is caught by main's except clause.
MainQuery ==
    /\ main_pc = "query"
    /\ \E q \in QueryNames : \E state_code \in StateCodesOf(q) :
       \E outcome \in QueryOutcomes :
         /\ Query(q, state_code, outcome)
         /\ main_exc' = IF outcome = "cursor" THEN "caught" ELSE main_exc
    /\ main_pc' = "finally"
    /\ UNCHANGED db_handler
    /\ UNCHANGED <<next_id, loads, db_batch, db_before, db_trace, db_result>>
    /\ UNCHANGED close_calls
    /\ UNCHANGED <<chVars, pVars>>
    /\ UNCHANGED mFrame

\* _handle_fetch(args), one iteration of its loop; an exception that leaves
\* it is caught by main's except clause.
MainFetch ==
    /\ main_pc = "fetch"
    /\ FetchIteration
    /\ main_pc' = IF h_pc' = "loop" THEN "fetch" ELSE "finally"
    /\ main_exc' = IF h_pc' = "raised" THEN "caught" ELSE main_exc
    /\ UNCHANGED db_handler
    /\ UNCHANGED hVars
    /\ UNCHANGED mFrame

\* A plausible slip: close() is the last statement of the try block and
\* runs only when the block ended normally.
ClosesAfterNormalEnd(exc) == exc = ""

\* finally: the clause runs however the try block ended.
ClosesAfter(exc) == TRUE

\* finally: if db_handler: db_handler.close(); then main returns, or the
\* SystemExit goes on.
MainFinally ==
    /\ main_pc = "finally"
    /\ main_pc' = "exit"
    /\ IF db_handler = "handler" /\ ClosesAfter(main_exc)
       THEN /\ conn' = ConnAfterClose(conn)
            /\ close_calls' = Append(close_calls,
                   [before |-> conn, after |-> ConnAfterClose(conn), raised |-> ""])
       ELSE UNCHANGED <<conn, close_calls>>
    /\ UNCHANGED <<db_handler, main_exc>>
    /\ UNCHANGED <<table, next_id, loads, db_batch, db_before, db_trace, db_result>>
    /\ UNCHANGED <<queries, q_result>>
    /\ UNCHANGED <<chVars, pVars>>
    /\ UNCHANGED mFrame

\* The server goes out of reach while main runs.
MainConnectionLost ==
    /\ main_pc \in {"create_tables", "run", "query", "fetch", "finally"}
    /\ ConnectionLost

MNext ==
    \/ MainConnect
    \/ MainCreateTables
    \/ MainRun
    \/ MainQuery
    \/ MainFetch
    \/ MainFinally
    \/ MainConnectionLost

\* C14: once the MySQLHandler is constructed, main returns (or SystemExit
\* leaves it) only after db_handler.close() was called, whether the command
\* completed or create_tables, the argument parsing or the handler of the
\* command raised; the connection is not open at exit.
C14_HandlerClosedAtExit ==
    (main_pc = "exit" /\ db_handler = "handler") =>
        /\ Len(close_calls) = 1
        /\ conn /= "open"

\* argparse rejected the command line: SystemExit passed the except clause,
\* and close() closed the open connection on the way out.
C14_Witness ==
    /\ main_pc = "exit" /\ db_handler = "handler" /\ main_exc = "SystemExit"
    /\ Len(close_calls) = 1 /\ close_calls[1].before = "open"
    /\ conn = "closed"

(***************************************************************************)
(* The specifications                                                      *)
(***************************************************************************)
InitFetchData ==
    component = "fetch_data" /\ FdInit /\ ChIdle /\ TrIdle /\ DbIdle /\ HIdle /\ PIdle /\ MIdle
SpecFetchData == InitFetchData /\ [][FdNext]_vars

InitChunked ==
    component = "fetch_data_chunked" /\ FdIdle /\ ChInit /\ TrIdle /\ DbIdle /\ HIdle /\ PIdle /\ MIdle
SpecChunked == InitChunked /\ [][ChNext]_vars

InitTransform ==
    component = "clean_and_transform" /\ FdIdle /\ ChIdle /\ TrInit /\ DbIdle /\ HIdle /\ PIdle /\ MIdle
SpecTransform == InitTransform /\ [][TrNext]_vars

InitLoad ==
    component = "load_cdc_data" /\ FdIdle /\ ChIdle /\ TrIdle /\ DbInit /\ HIdle /\ PIdle /\ MIdle
SpecLoad == InitLoad /\ [][DbNext]_vars

InitHandler ==
    component = "MySQLHandler" /\ FdIdle /\ ChIdle /\ TrIdle /\ HInit /\ PIdle /\ MIdle
SpecHandler == InitHandler /\ [][HNext]_vars

InitFetch ==
    component = "fetch" /\ FdIdle /\ TrIdle /\ HIdle /\ PInit /\ MIdle
SpecFetch == InitFetch /\ [][PNext]_vars

InitMain ==
    component = "main" /\ FdIdle /\ TrIdle /\ MInit
SpecMain == InitMain /\ [][MNext]_vars

\* The program as a whole: one of the components runs.
Init == InitFetchData \/ InitChunked \/ InitTransform \/ InitLoad \/ InitHandler \/ InitFetch \/ InitMain
Next == FdNext \/ ChNext \/ TrNext \/ DbNext \/ HNext \/ PNext \/ MNext
Spec == Init /\ [][Next]_vars

====
